---- MODULE Spec2Model ----
(***************************************************************************)
(* linearAlgebra::Vector<T, Dim> (tankgame/utils/Vector.hpp).              *)
(*                                                                         *)
(* Numbers.  Scalar is double and T is any arithmetic type.  Every number  *)
(* of the model is a dyadic fixed-point value: the integer n stands for    *)
(* the real n / Q, Q = 2^FracBits.  On the small magnitudes explored here  *)
(* double arithmetic on such values is exact, so the model's integer       *)
(* arithmetic is the program's arithmetic.  A component of an integer T    *)
(* is a multiple of Q.  The sign of a floating-point zero is not carried   *)
(* (operator== does not distinguish it).                                   *)
(*                                                                         *)
(* Objects.  a and b are the two Vector objects of a host program, res is  *)
(* the value returned by the last call (a temporary).  Every member        *)
(* function is one action.                                                 *)
(***************************************************************************)
EXTENDS Integers, Sequences, FiniteSets

VARIABLES T,      \* template parameter T: "int" or "double"
          Dim,    \* template parameter Dim
          a,      \* Vector object a: its member vec (std::vector<T>)
          b,      \* Vector object b: its member vec
          res     \* the last call and what it returned

vars == <<T, Dim, a, b, res>>

(***************************************************************************)
(* Bounds and program constants                                            *)
(***************************************************************************)
MaxComp == 1          \* constructor arguments and stored components lie in -MaxComp..MaxComp
FracBits == 2         \* resolution of the number grid: Q = 2^FracBits
SizeBits == 16        \* size_t is modelled SizeBits wide (arithmetic is modulo 2^SizeBits)
CrossDim == 3         \* x() exists only for Dim == 3
FDigits == 6          \* std::to_string(double) prints "%f": six fractional digits

Q == 2 ^ FracBits
SizeMod == 2 ^ SizeBits

Types == {"int", "double"}          \* instantiations of ScalarType T explored
Dims == 1..CrossDim                 \* instantiations of Dim explored
\* concept ScalarType, restricted to the instantiations explored
ScalarType(t) == t \in Types

\* the values of type t on the grid, within the bound
Comps(t) == {n * Q : n \in -MaxComp..MaxComp}

\* the multipliers explored: -1, 1/2, 2
Scalars == {-Q, Q \div 2, 2 * Q}

\* the contents of the stream before an insertion
OsPrefixes == {<<>>, <<"v", "=">>}

(***************************************************************************)
(* Arithmetic of the component types                                       *)
(***************************************************************************)
Abs(n) == IF n < 0 THEN -n ELSE n

\* x * y on the grid (exact whenever one factor is a whole number)
Mul(x, y) == (x * y) \div Q

\* the implicit conversion double -> T: truncation toward zero for an
\* integer T, the identity for double
Convert(t, x) ==
    IF t = "int"
    THEN IF x >= 0 THEN (x \div Q) * Q ELSE -(((-x) \div Q) * Q)
    ELSE x

\* size_t subtraction
SizeSub(m, n) == (m - n + SizeMod) % SizeMod

\* std::vector::operator[] with a 0-based index; outside the vector the
\* read is undefined
InRange(vec, i) == i >= 0 /\ i < Len(vec)
At(vec, i) == IF InRange(vec, i) THEN vec[i + 1] ELSE 0

\* std::sqrt of x >= 0 as the pair <<lo, hi>> of grid values that brackets the
\* correctly rounded root: lo = hi exactly when the root lies on the grid
ISqrt(n) == CHOOSE r \in 0..n : r * r <= n /\ (r + 1) * (r + 1) > n
Sqrt(x) ==
    LET r == ISqrt(Q * x)
    IN IF r * r = Q * x THEN <<r, r>> ELSE <<r, r + 1>>

(***************************************************************************)
(* The member functions, as functions of the member vec of the receiver    *)
(* (vec) and of the argument (other)                                       *)
(***************************************************************************)

\* Vector(const Xn& ... xn): vec = std::initializer_list<T>{xn...}
VectorCtor(xn) == [i \in 1..Len(xn) |-> xn[i]]

\* the private Vector(std::vector<T> v): vec = v
VectorFromStd(v) == [i \in 1..Len(v) |-> v[i]]

\* (mutants of operator+: the second range is the receiver's own; ret is
\*  created with vec.size() elements before back_inserter appends)
operatorPlusSelf(vec, other) ==
    VectorFromStd([i \in 1..Len(vec) |-> vec[i] + At(vec, i - 1)])
operatorPlusPresized(vec, other) ==
    VectorFromStd([i \in 1..Len(vec) |-> 0]
                  \o [i \in 1..Len(vec) |-> vec[i] + At(other, i - 1)])

\* std::transform(vec.begin(), vec.end(), other.vec.begin(),
\*                std::back_inserter(ret), std::plus<T>())
operatorPlus(vec, other) ==
    VectorFromStd([i \in 1..Len(vec) |-> vec[i] + At(other, i - 1)])

\* (mutant of operator-: the operands the other way round)
operatorMinusRev(vec, other) ==
    VectorFromStd([i \in 1..Len(vec) |-> At(other, i - 1) - vec[i]])

\* the same with std::minus<T>()
operatorMinus(vec, other) ==
    VectorFromStd([i \in 1..Len(vec) |-> vec[i] - At(other, i - 1)])

\* operator*(const Scalar& s): the lambda takes the element as a Scalar and
\* returns the double s*elem, which back_inserter converts to T
operatorTimesScalar(t, vec, s) ==
    VectorFromStd([i \in 1..Len(vec) |-> Convert(t, Mul(s, vec[i]))])

\* the indices std::transform reads in the receiver, and in the argument
transformReads(vec) == {i - 1 : i \in 1..Len(vec)}

\* operator*(const Vector& other): for(i=0; i<vec.size(); i++) ret += vec[i]*other.vec[i]
\* (mutant of the loop: it stops one index early)
RECURSIVE dotLoopShort(_, _, _, _, _)
dotLoopShort(vec, other, i, ret, reads) ==
    IF i < Len(vec) - 1
    THEN dotLoopShort(vec, other, i + 1, ret + Mul(At(vec, i), At(other, i)),
                      reads \cup {i})
    ELSE [ret |-> ret, reads |-> reads]

\* The loop returns ret together with the indices it read.
RECURSIVE dotLoop(_, _, _, _, _)
dotLoop(vec, other, i, ret, reads) ==
    IF i < Len(vec)
    THEN dotLoop(vec, other, i + 1, ret + Mul(At(vec, i), At(other, i)),
                 reads \cup {i})
    ELSE [ret |-> ret, reads |-> reads]

operatorTimesVector(vec, other) == dotLoop(vec, other, 0, 0, {})

\* (mutant of length(): the std::sqrt is missing)
lengthNoSqrt(vec) ==
    LET l == dotLoop(vec, vec, 0, 0, {})
    IN [ret |-> <<l.ret, l.ret>>, reads |-> l.reads]

\* length(): the same loop on vec alone, then std::sqrt
length(vec) ==
    LET l == dotLoop(vec, vec, 0, 0, {})
    IN [ret |-> Sqrt(l.ret), reads |-> l.reads]

\* (mutant of x(): the second component with its terms exchanged)
xSecondExchanged(vec, other) ==
    VectorCtor(<< Mul(At(vec, 1), At(other, 2)) - Mul(At(vec, 2), At(other, 1)),
                  Mul(At(vec, 0), At(other, 2)) - Mul(At(vec, 2), At(other, 0)),
                  Mul(At(vec, 0), At(other, 1)) - Mul(At(vec, 1), At(other, 0)) >>)

\* x(other): the three components, by index
x(vec, other) ==
    VectorCtor(<< Mul(At(vec, 1), At(other, 2)) - Mul(At(vec, 2), At(other, 1)),
                  Mul(At(vec, 2), At(other, 0)) - Mul(At(vec, 0), At(other, 2)),
                  Mul(At(vec, 0), At(other, 1)) - Mul(At(vec, 1), At(other, 0)) >>)

\* the indices x() reads in each operand
xReads(vec) == {0, 1, 2}

(***************************************************************************)
(* Text: a std::string is the sequence of its characters                   *)
(***************************************************************************)
DigitChars == <<"0", "1", "2", "3", "4", "5", "6", "7", "8", "9">>

RECURSIVE Digits(_)
Digits(n) ==
    IF n < 10 THEN <<DigitChars[n + 1]>>
    ELSE Digits(n \div 10) \o <<DigitChars[(n % 10) + 1]>>

\* std::to_string(int) prints "%d"; std::to_string(double) prints "%f"
to_string(t, v) ==
    LET sign == IF v < 0 THEN <<"-">> ELSE <<>>
        whole == Digits(Abs(v) \div Q)
        frac == ((Abs(v) % Q) * (10 ^ FDigits)) \div Q
    IN IF t = "int"
       THEN sign \o whole
       ELSE sign \o whole \o <<".">> \o
            [k \in 1..FDigits |-> DigitChars[((frac \div (10 ^ (FDigits - k))) % 10) + 1]]

\* toString(): for(i=0; i<vec.size()-1; i++) str += to_string(vec[i]) + ", ";
\*             str += to_string(vec[vec.size()-1]) + " ]";
\* The loop returns str together with the indices it read.
RECURSIVE toStringLoop(_, _, _, _, _)
toStringLoop(t, vec, i, str, reads) ==
    IF i < SizeSub(Len(vec), 1)
    THEN toStringLoop(t, vec, i + 1,
                      str \o to_string(t, At(vec, i)) \o <<",", " ">>,
                      reads \cup {i})
    ELSE [str |-> str, reads |-> reads]

\* (mutants of toString(): the separator also follows the last component;
\*  the last component is read at vec.size())
toStringTrailing(t, vec) ==
    LET l == toStringLoop(t, vec, 0, <<"[", " ">>, {})
        last == SizeSub(Len(vec), 1)
    IN [str |-> l.str \o to_string(t, At(vec, last)) \o <<",", " ">> \o <<" ", "]">>,
        reads |-> l.reads \cup {last}]
toStringPastEnd(t, vec) ==
    LET l == toStringLoop(t, vec, 0, <<"[", " ">>, {})
        last == Len(vec)
    IN [str |-> l.str \o to_string(t, At(vec, last)) \o <<" ", "]">>,
        reads |-> l.reads \cup {last}]

toString(t, vec) ==
    LET l == toStringLoop(t, vec, 0, <<"[", " ">>, {})
        last == SizeSub(Len(vec), 1)
    IN [str |-> l.str \o to_string(t, At(vec, last)) \o <<" ", "]">>,
        reads |-> l.reads \cup {last}]

\* operator<<(os, v): os << v.toString()
operatorShl(os, t, vec) ==
    [str |-> os \o toString(t, vec).str, reads |-> toString(t, vec).reads]

(***************************************************************************)
(* The state machine: a host evaluates one call at a time on its objects   *)
(* a (the receiver) and b (the argument); the temporary the call returned  *)
(* lives until the host copies it into an object or drops it               *)
(***************************************************************************)
Names == {"a", "b"}

\* what a call returned: the call (op, multiplier s, stream contents pre),
\* its value (vec, or num..hi, or text) and the indices it read in its
\* receiver (reads) and in its argument (readsOther)
Ret(op, s, pre, vec, num, hi, text, reads, readsOther) ==
    [op |-> op, s |-> s, pre |-> pre, vec |-> vec, num |-> num, hi |-> hi,
     text |-> text, reads |-> reads, readsOther |-> readsOther]

\* no temporary is alive: op is "none", or "assign" after a copy assignment
NoRet(op) == Ret(op, 0, <<>>, <<>>, 0, 0, <<>>, {}, {})

VecRet(op, s, vec, reads, readsOther) ==
    Ret(op, s, <<>>, vec, 0, 0, <<>>, reads, readsOther)

\* the arguments a host passes to the constructor
CtorArgs(t, d) == [1..d -> Comps(t)]

\* Vector<T, Dim> a(xn...), b(yn...): requires(sizeof...(Xn) == Dim)
Init ==
    /\ T \in Types
    /\ ScalarType(T)
    /\ Dim \in Dims
    /\ a \in {VectorCtor(xn) : xn \in CtorArgs(T, Dim)}
    /\ b \in {VectorCtor(xn) : xn \in CtorArgs(T, Dim)}
    /\ res = NoRet("none")

Idle == res.op \in {"none", "assign"}

\* d = <the returned vector>: the implicit copy assignment of Vector, which
\* copies the member vec; the temporary then dies
Assign(d) ==
    /\ res.vec # <<>>
    /\ \A i \in 1..Len(res.vec) : res.vec[i] \in Comps(T)
    /\ a' = IF d = "a" THEN res.vec ELSE a
    /\ b' = IF d = "b" THEN res.vec ELSE b
    /\ res' = NoRet("assign")
    /\ UNCHANGED <<T, Dim>>

\* the end of the full expression: the temporary dies
Discard ==
    /\ ~Idle
    /\ res' = NoRet("none")
    /\ UNCHANGED <<T, Dim, a, b>>

\* (mutant of a + b: the sum is accumulated in the receiver, as operator+= would)
AddInPlace ==
    /\ Idle
    /\ res' = VecRet("add", 0, operatorPlus(a, b),
                     transformReads(a), transformReads(a))
    /\ a' = operatorPlus(a, b)
    /\ UNCHANGED <<T, Dim, b>>

\* a + b
Add ==
    /\ Idle
    /\ res' = VecRet("add", 0, operatorPlus(a, b),
                     transformReads(a), transformReads(a))
    /\ UNCHANGED <<T, Dim, a, b>>

\* a - b
Sub ==
    /\ Idle
    /\ res' = VecRet("sub", 0, operatorMinus(a, b),
                     transformReads(a), transformReads(a))
    /\ UNCHANGED <<T, Dim, a, b>>

\* a * s
Scale(s) ==
    /\ Idle
    /\ res' = VecRet("scale", s, operatorTimesScalar(T, a, s),
                     transformReads(a), {})
    /\ UNCHANGED <<T, Dim, a, b>>

\* a * b
Dot ==
    /\ Idle
    /\ res' = Ret("dot", 0, <<>>, <<>>,
                  operatorTimesVector(a, b).ret, operatorTimesVector(a, b).ret,
                  <<>>,
                  operatorTimesVector(a, b).reads, operatorTimesVector(a, b).reads)
    /\ UNCHANGED <<T, Dim, a, b>>

\* a.length()
Length ==
    /\ Idle
    /\ res' = Ret("length", 0, <<>>, <<>>, length(a).ret[1], length(a).ret[2],
                  <<>>, length(a).reads, {})
    /\ UNCHANGED <<T, Dim, a, b>>

\* a.x(b): x() is declared only for Dim == 3, and it takes and returns
\* Vector<Scalar, 3>, so that it compiles only in Vector<double, 3>
Cross ==
    /\ Idle
    /\ Dim = CrossDim
    /\ T = "double"
    /\ res' = VecRet("cross", 0, x(a, b), xReads(a), xReads(b))
    /\ UNCHANGED <<T, Dim, a, b>>

\* a.toString()
ToStr ==
    /\ Idle
    /\ res' = Ret("toString", 0, <<>>, <<>>, 0, 0, toString(T, a).str,
                  toString(T, a).reads, {})
    /\ UNCHANGED <<T, Dim, a, b>>

\* os << a, on a stream that holds os
StreamInsert(os) ==
    /\ Idle
    /\ res' = Ret("<<", 0, os, <<>>, 0, 0, operatorShl(os, T, a).str,
                  operatorShl(os, T, a).reads, {})
    /\ UNCHANGED <<T, Dim, a, b>>

Next ==
    \/ \E d \in Names : Assign(d)
    \/ Discard
    \/ Add
    \/ Sub
    \/ \E s \in Scalars : Scale(s)
    \/ Dot
    \/ Length
    \/ Cross
    \/ ToStr
    \/ \E os \in OsPrefixes : StreamInsert(os)

Spec == Init /\ [][Next]_vars

(***************************************************************************)
(* Properties                                                              *)
(***************************************************************************)
Zero == [i \in 1..Dim |-> 0]
VecOps == {"add", "sub", "scale", "cross"}
Indices(vec) == {i \in 0..Len(vec) : i < Len(vec)}

\* C1: the vector a.x(b) returns has the components a1*b2 - a2*b1,
\* a2*b0 - a0*b2, a0*b1 - a1*b0, in this order; (1,0,0) x (0,1,0) = (0,0,1).
C1_Cross ==
    res.op = "cross" =>
        /\ Len(res.vec) = 3
        /\ res.vec[1] * Q = a[2] * b[3] - a[3] * b[2]
        /\ res.vec[2] * Q = a[3] * b[1] - a[1] * b[3]
        /\ res.vec[3] * Q = a[1] * b[2] - a[2] * b[1]
        /\ (a = <<Q, 0, 0>> /\ b = <<0, Q, 0>>) => res.vec = <<0, 0, Q>>

C1_Witness ==
    /\ res.op = "cross"
    /\ a = <<Q, 0, 0>>
    /\ b = <<0, Q, 0>>
    /\ res.vec = <<0, 0, Q>>

\* C2: scaling distributes over addition, for every component type:
\* (a + b) * s = a * s + b * s, where a * s is the vector the call returned.
C2_ScalarDistributive ==
    res.op = "scale" =>
        operatorTimesScalar(T, operatorPlus(a, b), res.s)
            = operatorPlus(res.vec, operatorTimesScalar(T, b, res.s))

\* (the part of C2 the code keeps: each component of a * s is s * a[i]
\*  converted to T)
C2_ScaleComponents ==
    res.op = "scale" =>
        /\ Len(res.vec) = Len(a)
        /\ \A i \in 1..Len(a) : res.vec[i] = Convert(T, (res.s * a[i]) \div Q)

\* C3: a.toString() is "[ ", the renderings of the components in index
\* order with ", " between consecutive ones (Dim-1 separators, none after the
\* last), then " ]"; os << a appends exactly this text to os.
RECURSIVE Joined(_, _, _)
Joined(t, vec, i) ==
    IF i = Len(vec) THEN to_string(t, vec[i])
    ELSE to_string(t, vec[i]) \o <<",", " ">> \o Joined(t, vec, i + 1)

Rendering == <<"[", " ">> \o Joined(T, a, 1) \o <<" ", "]">>

Commas(text) == Cardinality({k \in 1..Len(text) : text[k] = ","})

C3_ToString ==
    /\ res.op = "toString" =>
        /\ res.text = Rendering
        /\ Commas(res.text) = Dim - 1
        /\ Dim = 1 => res.text = <<"[", " ">> \o to_string(T, a[1]) \o <<" ", "]">>
    /\ res.op = "<<" => res.text = res.pre \o Rendering
    /\ toString("double", <<Q, 2 * Q, 3 * Q>>).str =
           << "[", " ", "1", ".", "0", "0", "0", "0", "0", "0", ",", " ",
              "2", ".", "0", "0", "0", "0", "0", "0", ",", " ",
              "3", ".", "0", "0", "0", "0", "0", "0", " ", "]" >>

C3_Witness ==
    /\ res.op = "<<"
    /\ res.pre # <<>>
    /\ T = "double"
    /\ Dim = 3
    /\ a = <<-Q, 0, Q>>
    /\ Commas(res.text) = 2

\* C4: a - b has the components a[i] - b[i]; a - a is the zero vector.
C4_Subtract ==
    res.op = "sub" =>
        /\ Len(res.vec) = Dim
        /\ \A i \in 1..Dim : res.vec[i] = a[i] - b[i]
        /\ a = b => res.vec = Zero

C4_Witness ==
    /\ res.op = "sub"
    /\ \E i \in 1..Dim : a[i] - b[i] # b[i] - a[i] /\ res.vec[i] = a[i] - b[i]

\* C5: a + b has the components a[i] + b[i], in index order; a + b = b + a,
\* and a + zeroVector = a.
C5_Add ==
    res.op = "add" =>
        /\ Len(res.vec) = Dim
        /\ \A i \in 1..Dim : res.vec[i] = a[i] + b[i]
        /\ res.vec = operatorPlus(b, a)
        /\ b = Zero => res.vec = a

C5_Witness ==
    /\ res.op = "add"
    /\ Dim = 3
    /\ a # b
    /\ b # Zero
    /\ res.vec # a
    /\ res.vec[1] # res.vec[2]

\* C6: a * b is the sum over every index of a[i]*b[i]; it is symmetric, and
\* (1,2,3) * (4,5,6) = 32.
RECURSIVE SumProducts(_, _, _)
SumProducts(u, v, i) ==
    IF i = 0 THEN 0 ELSE u[i] * v[i] + SumProducts(u, v, i - 1)

C6_Dot ==
    /\ res.op = "dot" =>
        /\ res.num * Q = SumProducts(a, b, Dim)
        /\ res.num = operatorTimesVector(b, a).ret
    /\ operatorTimesVector(<<Q, 2 * Q, 3 * Q>>, <<4 * Q, 5 * Q, 6 * Q>>).ret = 32 * Q

C6_Witness ==
    /\ res.op = "dot"
    /\ Dim = 3
    /\ a = <<Q, Q, Q>>
    /\ b = <<Q, -Q, Q>>
    /\ res.num = Q

\* C7: a.length() is the non-negative square root of a * a: it is >= 0, it
\* is the exact root when a * a is a perfect square, length(zeroVector) = 0
\* and length((3,4,0)) = 5.
C7_Length ==
    /\ res.op = "length" =>
        LET d == operatorTimesVector(a, a).ret
        IN /\ res.num >= 0
           /\ res.num * res.num <= Q * d
           /\ Q * d <= res.hi * res.hi
           /\ res.hi - res.num <= 1
           /\ \A m \in 0..d : d = m * m * Q => res.num = m * Q /\ res.hi = m * Q
           /\ a = Zero => res.num = 0 /\ res.hi = 0
    /\ length(<<3 * Q, 4 * Q, 0>>).ret = <<5 * Q, 5 * Q>>

C7_Witness ==
    /\ res.op = "length"
    /\ a # Zero
    /\ operatorTimesVector(a, a).ret = Q
    /\ res.num = Q
    /\ res.hi = Q

\* C8: every vector that exists, an object or a returned vector, holds
\* exactly Dim components.
C8_DimComponents ==
    /\ Len(a) = Dim
    /\ Len(b) = Dim
    /\ res.op \in VecOps => Len(res.vec) = Dim

C8_Witness ==
    /\ res.op = "assign"
    /\ Dim = 3
    /\ Len(a) = 3
    /\ a = b
    /\ a # Zero

\* C9: a call changes neither its receiver nor its argument, and copying a
\* returned vector into one object changes no other object.
C9_Frame ==
    [][ /\ res'.op # "assign" => (a' = a /\ b' = b)
        /\ a' # a => (a' = res.vec /\ b' = b)
        /\ b' # b => (b' = res.vec /\ a' = a) ]_vars

C9_Witness ==
    /\ res.op = "add"
    /\ a # Zero
    /\ b # Zero
    /\ res.vec # a
    /\ res.vec # b

\* C10: every index a call reads lies inside the vector it reads, for every
\* Dim >= 1, and every vector it returns is whole.
C10_IndicesInRange ==
    /\ Dim >= 1
    /\ res.reads \subseteq Indices(a)
    /\ res.readsOther \subseteq Indices(b)
    /\ res.op \in VecOps => Len(res.vec) = Len(a)
    /\ res.op \in {"toString", "<<"} => res.reads = Indices(a)
    /\ res.op = "dot" => (res.reads = Indices(a) /\ res.readsOther = Indices(b))

C10_Witness ==
    /\ res.op = "toString"
    /\ Dim = 1
    /\ res.reads = {0}

====
